---- MODULE Spec2Model ----
(***************************************************************************)
(* PhishGuard front end: the request lifecycle of the two App components   *)
(* of frontend/src (App.jsx and App.js).  A state is the React state of    *)
(* one mounted component (url, loading, result, error) together with the   *)
(* invocations of handleSubmit that are suspended at an await.             *)
(*                                                                         *)
(* Text is a sequence of one-character strings (the input field) or a      *)
(* sequence of string pieces (messages); JavaScript values are tagged      *)
(* tuples so that values of different types can be compared.               *)
(***************************************************************************)
EXTENDS Integers, Sequences, FiniteSets, TLC

VARIABLES app, url, loading, result, error, calls, submits, valid, outcome, last

vars == <<app, url, loading, result, error, calls, submits, valid, outcome, last>>

(* ------------------------------ bounds -------------------------------- *)

\* Longest text typed into the input field.
MaxLen == 2

\* Number of submit events in a behaviour.
MaxSubmits == 2

(* ------------------------- JavaScript values -------------------------- *)

Undefined == <<"undefined">>

Null == <<"null">>

Num(n) == <<"number", n>>

Str(s) == <<"string", s>>

Obj(label, score, prediction, reasons, err) ==
    <<"object", [label |-> label, score |-> score, prediction |-> prediction,
                 reasons |-> reasons, error |-> err]>>

TypeOf(v) == v[1]

\* ToBoolean, as used by `x && ...`, `!x` and `x || y`.
Truthy(v) ==
    CASE TypeOf(v) = "undefined" -> FALSE
      [] TypeOf(v) = "null"      -> FALSE
      [] TypeOf(v) = "number"    -> v[2] # 0
      [] TypeOf(v) = "string"    -> v[2] # <<>>
      [] OTHER                   -> TRUE

\* v.label, v.prediction: a property read.  On a primitive that is not
\* null or undefined the read gives undefined.
GetLabel(v) == IF TypeOf(v) = "object" THEN v[2].label ELSE Undefined

GetPrediction(v) == IF TypeOf(v) = "object" THEN v[2].prediction ELSE Undefined

GetScore(v) == IF TypeOf(v) = "object" THEN v[2].score ELSE Undefined

\* The decimal digits of a magnitude m held in hundredths, with two
\* fraction digits.
Digits2(m) ==
    <<ToString(m \div 100), ".", ToString((m % 100) \div 10), ToString(m % 10)>>

\* n.toFixed(2) for a score, which is held in hundredths (93 is 0.93, -5 is
\* -0.05): the sign, then the digits of the magnitude.
ToFixed2(n) == IF n < 0 THEN <<"-">> \o Digits2(-n) ELSE Digits2(n)

\* String(n) for a score held in hundredths: as toFixed, without the
\* trailing zeros of the fraction.
NumberText(n) ==
    LET m == IF n < 0 THEN -n ELSE n
        whole == <<ToString(m \div 100)>>
        frac == IF m % 100 = 0 THEN <<>>
                ELSE IF m % 10 = 0 THEN <<".", ToString((m % 100) \div 10)>>
                ELSE <<".", ToString((m % 100) \div 10), ToString(m % 10)>>
    IN (IF n < 0 THEN <<"-">> ELSE <<>>) \o whole \o frac

\* String(v) for the values a score can be.
StringOf(v) ==
    CASE TypeOf(v) = "undefined" -> <<"undefined">>
      [] TypeOf(v) = "null"      -> <<"null">>
      [] TypeOf(v) = "number"    -> NumberText(v[2])
      [] TypeOf(v) = "string"    -> v[2]
      [] OTHER                   -> <<"[object Object]">>

\* A property read on null or undefined throws a TypeError.
ReadThrows(v) == TypeOf(v) \in {"undefined", "null"}

(* ------------------------------- text --------------------------------- *)

Chars == {" ", "a"}

\* Characters String.prototype.trim removes (those of the alphabet).
WhiteSpace == {" "}

Texts == UNION {[1..n -> Chars] : n \in 0..MaxLen}

RECURSIVE TrimStart(_)
TrimStart(s) ==
    IF s = <<>> THEN s
    ELSE IF Head(s) \in WhiteSpace THEN TrimStart(Tail(s)) ELSE s

RECURSIVE TrimEnd(_)
TrimEnd(s) ==
    IF s = <<>> THEN s
    ELSE IF s[Len(s)] \in WhiteSpace THEN TrimEnd(SubSeq(s, 1, Len(s) - 1)) ELSE s

\* (url || "").trim()
Trim(s) == TrimEnd(TrimStart(s))

(* --------------------------- the classifier --------------------------- *)

\* HTTP statuses the classifier answers with.
Statuses == {200, 500}

\* Response.ok
Ok(status) == status \in 200..299

\* Parsed JSON bodies: Shape A, Shape B, and bodies of neither shape.
ShapeAPhish == Obj(Num(1), Num(93), Undefined, <<"ip-literal-host">>, Undefined)

ShapeASafe == Obj(Num(0), Num(12), Undefined, <<>>, Undefined)

ShapeBPhish == Obj(Undefined, Undefined, Str(<<"phishing">>), <<>>, Undefined)

ShapeBLegit == Obj(Undefined, Undefined, Str(<<"legit">>), <<>>, Undefined)

EmptyObject == Obj(Undefined, Undefined, Undefined, <<>>, Undefined)

OddLabel == Obj(Num(2), Str(<<"high">>), Undefined, <<>>, Undefined)

\* Shape A but for its score, which is not a number.
OddScore == Obj(Num(1), Str(<<"high">>), Undefined, <<>>, Undefined)

\* Shape A with a score below zero (-0.05): the code checks no range.
NegativeScore == Obj(Num(0), Num(-5), Undefined, <<>>, Undefined)

Payloads == {ShapeAPhish, ShapeASafe, ShapeBPhish, ShapeBLegit, EmptyObject,
             OddLabel, OddScore, NegativeScore, Null}

\* Bodies read as text from a non-2xx response.
ErrorTexts == {<<>>, <<"Internal Server Error">>}

\* err.message of a rejected fetch or body read.
RejectMsgs == {<<>>, <<"Failed to fetch">>}

\* err.message of the SyntaxError of response.json().
ParseMsgs == {<<"Unexpected token < in JSON at position 0">>}

(* ------------------------------ messages ------------------------------ *)

ValidationMsg == <<"Please enter a URL to scan.">>

NetworkMsg == <<"Network error">>

ServerPrefix == <<"Server error: ">>

\* "Server error: " + (text || resp.status)
ServerMsg(text, status) ==
    ServerPrefix \o (IF text # <<>> THEN text ELSE <<ToString(status)>>)

\* err.message || "Network error"
CatchMsg(m) == IF m # <<>> THEN m ELSE NetworkMsg

\* The object App.js stores when the request throws.
ErrObject == Obj(Undefined, Undefined, Undefined, <<>>, Str(<<"Something went wrong!">>))

(* ------------------------------ the view ------------------------------ *)

\* {loading ? "Checking..." : "Check"} and {loading && <spinner/>}
Busy == loading

\* {error && ...}: the error box of App.jsx.
ShowsError == Truthy(error)

\* {result && ...}: the verdict box.
ShowsVerdict == Truthy(result)

\* The verdict the box shows for a result value.
VerdictJsx(r) == IF GetLabel(r) = Num(1) THEN "phishing" ELSE "safe"

VerdictJs(r) == IF r = Str(<<"phishing">>) THEN "phishing" ELSE "safe"

Verdict(r) == IF app = "jsx" THEN VerdictJsx(r) ELSE VerdictJs(r)

\* The text after "Score:" in the verdict box of App.jsx.
ScoreTextJsx(r) ==
    IF TypeOf(GetScore(r)) = "number" THEN ToFixed2(GetScore(r)[2]) ELSE StringOf(GetScore(r))

\* The lifecycle state an observer reads off the view.
Lifecycle ==
    IF loading THEN "checking"
    ELSE IF ShowsError THEN "failed"
    ELSE IF ShowsVerdict THEN "resolved"
    ELSE "idle"

(* --------------------------- suspended calls -------------------------- *)

\* One invocation of handleSubmit that reached fetch: where it is suspended
\* (pc), the url of its POST body and the status of its response (0 before
\* the response).  An invocation that has run to its end holds nothing.
NewCall(u) == [pc |-> "fetch", url |-> u, status |-> 0]

Returned == [pc |-> "done", url |-> <<>>, status |-> 0]

\* What the most recent submit came to: its kind ("invalid" input, "pending",
\* "network": fetch rejected, "server": non-2xx, "aborted": body unreadable,
\* "malformed": body not JSON, "parsed") and the datum it ended with (the
\* parsed body, or the message of the error).
Outcome(kind, data) == [kind |-> kind, data |-> data]

\* The last event other than an edit, the call it belongs to, and the
\* lifecycle state it found.
Event(ev, id) == [ev |-> ev, id |-> id, was |-> Lifecycle]

\* The outcome after call i ends: recorded when i is the most recent call.
Ends(i, kind, data) == IF i = Len(calls) THEN Outcome(kind, data) ELSE outcome

(* ------------------------------- Init --------------------------------- *)

Init ==
    /\ app \in {"jsx", "js"}
    /\ url = <<>>
    /\ loading = FALSE
    /\ result = Null
    /\ error = Null
    /\ calls = <<>>
    /\ submits = 0
    /\ valid = 0
    /\ outcome = Outcome("none", Null)
    /\ last = [ev |-> "mount", id |-> 0, was |-> "idle"]

(* ------------------------------ both apps ----------------------------- *)

\* Edit where the requests still waiting for fetch read the field live.
EditLive(s) ==
    /\ s # url
    /\ url' = s
    /\ calls' = [i \in DOMAIN calls |->
                    IF calls[i].pc = "fetch" /\ Trim(s) # <<>>
                    THEN [calls[i] EXCEPT !.url = Trim(s)]
                    ELSE calls[i]]
    /\ UNCHANGED <<app, loading, result, error, submits, valid, outcome, last>>

\* onChange: the user edits the input field.
Edit(s) ==
    /\ s # url
    /\ url' = s
    /\ UNCHANGED <<app, loading, result, error, calls, submits, valid, outcome, last>>

(* ------------------------------ App.jsx ------------------------------- *)

\* SubmitJsx without the setError(null) and setResult(null) it starts with.
SubmitJsxKeepsOld ==
    /\ app = "jsx"
    /\ submits < MaxSubmits
    /\ submits' = submits + 1
    /\ LET trimmed == Trim(url) IN
       IF trimmed = <<>>
       THEN /\ error' = Str(ValidationMsg)
            /\ outcome' = Outcome("invalid", error')
            /\ last' = Event("invalid", 0)
            /\ UNCHANGED <<loading, result, calls, valid>>
       ELSE /\ loading' = TRUE
            /\ calls' = Append(calls, NewCall(trimmed))
            /\ valid' = valid + 1
            /\ outcome' = Outcome("pending", Null)
            /\ last' = Event("submit", Len(calls) + 1)
            /\ UNCHANGED <<result, error>>
    /\ UNCHANGED <<app, url>>

\* handleSubmit up to its first await.
SubmitJsx ==
    /\ app = "jsx"
    /\ submits < MaxSubmits
    /\ submits' = submits + 1
    /\ LET trimmed == Trim(url) IN
       IF trimmed = <<>>
       THEN /\ error' = Str(ValidationMsg)
            /\ result' = Null
            /\ outcome' = Outcome("invalid", error')
            /\ last' = Event("invalid", 0)
            /\ UNCHANGED <<loading, calls, valid>>
       ELSE /\ error' = Null
            /\ result' = Null
            /\ loading' = TRUE
            /\ calls' = Append(calls, NewCall(trimmed))
            /\ valid' = valid + 1
            /\ outcome' = Outcome("pending", Null)
            /\ last' = Event("submit", Len(calls) + 1)
    /\ UNCHANGED <<app, url>>

\* await fetch(...) resolves: the continuation runs to the next await.
FetchResolveJsx(i, status) ==
    /\ app = "jsx"
    /\ calls[i].pc = "fetch"
    /\ calls' = [calls EXCEPT ![i].pc = IF Ok(status) THEN "json" ELSE "text",
                              ![i].status = status]
    /\ last' = Event("response", i)
    /\ UNCHANGED <<app, url, loading, result, error, submits, valid, outcome>>

\* The catch and finally blocks, run for call i with an error of message m.
CatchJsx(i, kind, m) ==
    /\ error' = Str(CatchMsg(m))
    /\ loading' = FALSE
    /\ calls' = [calls EXCEPT ![i] = Returned]
    /\ outcome' = Ends(i, kind, error')
    /\ last' = Event(kind, i)
    /\ UNCHANGED <<app, url, result, submits, valid>>

\* await fetch(...) rejects.
FetchRejectJsx(i, m) ==
    /\ app = "jsx"
    /\ calls[i].pc = "fetch"
    /\ CatchJsx(i, "network", m)

\* await resp.text() resolves: the Error is thrown and caught.
TextResolveJsx(i, text) ==
    /\ app = "jsx"
    /\ calls[i].pc = "text"
    /\ CatchJsx(i, "server", ServerMsg(text, calls[i].status))

\* await resp.text() rejects: the body cannot be read.
TextRejectJsx(i, m) ==
    /\ app = "jsx"
    /\ calls[i].pc = "text"
    /\ CatchJsx(i, "aborted", m)

\* await resp.json() resolves: setResult(data), then finally.
JsonResolveJsx(i, data) ==
    /\ app = "jsx"
    /\ calls[i].pc = "json"
    /\ result' = data
    /\ loading' = FALSE
    /\ calls' = [calls EXCEPT ![i] = Returned]
    /\ outcome' = Ends(i, "parsed", data)
    /\ last' = Event("parsed", i)
    /\ UNCHANGED <<app, url, error, submits, valid>>

\* await resp.json() rejects: a SyntaxError, or the body cannot be read.
JsonRejectJsx(i, m) ==
    /\ app = "jsx"
    /\ calls[i].pc = "json"
    /\ CatchJsx(i, IF m \in ParseMsgs THEN "malformed" ELSE "aborted", m)

(* ------------------------------- App.js ------------------------------- *)

\* handleSubmit up to its await.  The input is `required`, so the form
\* does not submit while the field is empty.
SubmitJs ==
    /\ app = "js"
    /\ submits < MaxSubmits
    /\ url # <<>>
    /\ submits' = submits + 1
    /\ loading' = TRUE
    /\ result' = Null
    /\ calls' = Append(calls, NewCall(url))
    /\ valid' = IF Trim(url) # <<>> THEN valid + 1 ELSE valid
    /\ outcome' = Outcome("pending", Null)
    /\ last' = Event("submit", Len(calls) + 1)
    /\ UNCHANGED <<app, url, error>>

\* await fetch(...) resolves: response.json() is awaited whatever the status.
FetchResolveJs(i, status) ==
    /\ app = "js"
    /\ calls[i].pc = "fetch"
    /\ calls' = [calls EXCEPT ![i].pc = "json", ![i].status = status]
    /\ last' = Event("response", i)
    /\ UNCHANGED <<app, url, loading, result, error, submits, valid, outcome>>

\* The catch block and the setLoading(false) after it, run for call i.
CatchJs(i, kind, data) ==
    /\ result' = ErrObject
    /\ loading' = FALSE
    /\ calls' = [calls EXCEPT ![i] = Returned]
    /\ outcome' = Ends(i, kind, data)
    /\ last' = Event(kind, i)
    /\ UNCHANGED <<app, url, error, submits, valid>>

\* await fetch(...) rejects.
FetchRejectJs(i, m) ==
    /\ app = "js"
    /\ calls[i].pc = "fetch"
    /\ CatchJs(i, "network", Str(m))

\* await response.json() resolves: setResult(data.prediction), then
\* setLoading(false); reading .prediction of null throws into the catch.
JsonResolveJs(i, data) ==
    /\ app = "js"
    /\ calls[i].pc = "json"
    /\ IF ReadThrows(data)
       THEN CatchJs(i, "parsed", data)
       ELSE /\ result' = GetPrediction(data)
            /\ loading' = FALSE
            /\ calls' = [calls EXCEPT ![i] = Returned]
            /\ outcome' = Ends(i, "parsed", data)
            /\ last' = Event("parsed", i)
            /\ UNCHANGED <<app, url, error, submits, valid>>

\* await response.json() rejects: a SyntaxError, or the body cannot be read.
JsonRejectJs(i, m) ==
    /\ app = "js"
    /\ calls[i].pc = "json"
    /\ CatchJs(i, IF m \in ParseMsgs THEN "malformed" ELSE "aborted", Str(m))

(* --------------------------- specifications --------------------------- *)

Ids == 1..Len(calls)

NextJsx ==
    \/ \E s \in Texts : Edit(s)
    \/ SubmitJsx
    \/ \E i \in Ids, status \in Statuses : FetchResolveJsx(i, status)
    \/ \E i \in Ids, m \in RejectMsgs : FetchRejectJsx(i, m)
    \/ \E i \in Ids, text \in ErrorTexts : TextResolveJsx(i, text)
    \/ \E i \in Ids, m \in RejectMsgs : TextRejectJsx(i, m)
    \/ \E i \in Ids, data \in Payloads : JsonResolveJsx(i, data)
    \/ \E i \in Ids, m \in RejectMsgs \cup ParseMsgs : JsonRejectJsx(i, m)

NextJs ==
    \/ \E s \in Texts : Edit(s)
    \/ SubmitJs
    \/ \E i \in Ids, status \in Statuses : FetchResolveJs(i, status)
    \/ \E i \in Ids, m \in RejectMsgs : FetchRejectJs(i, m)
    \/ \E i \in Ids, data \in Payloads : JsonResolveJs(i, data)
    \/ \E i \in Ids, m \in RejectMsgs \cup ParseMsgs : JsonRejectJs(i, m)

Next == NextJsx \/ NextJs

InitJsx == Init /\ app = "jsx"

InitJs == Init /\ app = "js"

\* Either component.
Spec == Init /\ [][Next]_vars

\* App.jsx alone.
SpecJsx == InitJsx /\ [][NextJsx]_vars

\* App.js alone.
SpecJs == InitJs /\ [][NextJs]_vars

(* ------------------------- notions of the claims ---------------------- *)

\* A step that is a submit; the input it submits is url.
SubmitStep == submits' = submits + 1

\* The input is non-empty after trimming.
ValidInput == Trim(url) # <<>>

Latest == Len(calls)

AllSettled == \A i \in Ids : calls[i].pc = "done"

\* The state right after the most recent call ended in kind k.
JustEnded(k) == last.ev = k /\ last.id = Latest /\ outcome.kind = k

\* Shape A: label is exactly 0 or 1.  Shape B: prediction is a string.
IsShapeA(p) == GetLabel(p) \in {Num(0), Num(1)}

IsShapeB(p) == TypeOf(GetPrediction(p)) = "string"

\* The verdict of a payload: Shape A first, else Shape B.
IsPhishing(p) ==
    IF IsShapeA(p) THEN GetLabel(p) = Num(1) ELSE GetPrediction(p) = Str(<<"phishing">>)

IsServerMsg(e) ==
    /\ TypeOf(e) = "string"
    /\ Len(e[2]) >= 2
    /\ SubSeq(e[2], 1, 1) = ServerPrefix

\* <<loading, result, error>> as a submission of outcome o leaves them when
\* no other submission is in flight.
Alone(o) ==
    IF app = "jsx"
    THEN IF o.kind = "parsed" THEN <<FALSE, o.data, Null>> ELSE <<FALSE, Null, o.data>>
    ELSE IF o.kind = "parsed" /\ ~ReadThrows(o.data)
         THEN <<FALSE, GetPrediction(o.data), Null>>
         ELSE <<FALSE, ErrObject, Null>>

\* A single submission that has settled leaves the state Alone describes.
AloneIsExact ==
    (Len(calls) = 1 /\ submits = 1 /\ AllSettled) => <<loading, result, error>> = Alone(outcome)

(* ------------------------------- claims ------------------------------- *)

\* C1: last-submission-wins.  Once every call of two or more overlapping or
\* successive submissions has settled, the visible state (busy indicator,
\* verdict, error) is the one the most recent submission's outcome produces
\* alone; an earlier call settling late does not alter it.
C1_LastSubmissionWins ==
    (Len(calls) >= 2 /\ AllSettled /\ outcome.kind # "invalid")
        => <<loading, result, error>> = Alone(outcome)

\* C2: a submit whose input is empty or whitespace-only dispatches no
\* transport call and shows the validation error in the same step, without
\* turning the busy indicator on.
C2_BlankInputNeverDispatched ==
    [][(SubmitStep /\ ~ValidInput)
          => /\ calls' = calls
             /\ error' = Str(ValidationMsg)
             /\ ~ShowsVerdict'
             /\ loading' = loading]_vars

\* C3: a submit whose input is non-empty after trimming issues exactly one
\* POST, and the url of its body is the trimmed input.
C3_OnePostWithTrimmedUrl ==
    [][(SubmitStep /\ ValidInput)
          => /\ Len(calls') = Len(calls) + 1
             /\ SubSeq(calls', 1, Len(calls)) = calls
             /\ calls'[Len(calls')].pc = "fetch"
             /\ calls'[Len(calls')].url = Trim(url)]_vars

\* C4: when the transport call of the most recent submission rejects, the
\* controller is in Failed(NetworkError) and shows no verdict.
C4_RejectionClearsVerdict ==
    JustEnded("network") => (Lifecycle = "failed" /\ ~ShowsVerdict)

\* C5: a call whose response has a non-2xx status and a readable body ends
\* by showing a "Server error: ..." message and never stores a verdict.
C5_Non2xxIsServerError ==
    [][\A i \in Ids :
          (/\ calls[i].pc \in {"text", "json"}
           /\ ~Ok(calls[i].status)
           /\ calls'[i].pc = "done"
           /\ last'.ev # "aborted")
          => (result' = result /\ IsServerMsg(error') /\ ~loading')]_vars

\* C6: for a 2xx payload of Shape A or Shape B a verdict is shown, and it is
\* phishing exactly when label is 1 (Shape A) or prediction is "phishing"
\* (Shape B).
C6_VerdictFollowsShape ==
    (JustEnded("parsed") /\ (IsShapeA(outcome.data) \/ IsShapeB(outcome.data)))
        => (ShowsVerdict /\ (Verdict(result) = "phishing" <=> IsPhishing(outcome.data)))

\* C7: a parsed 2xx payload of neither shape ends in a Failed state with no
\* verdict shown.
C7_UnrecognizedShapeFails ==
    (JustEnded("parsed") /\ ~IsShapeA(outcome.data) /\ ~IsShapeB(outcome.data))
        => (Lifecycle = "failed" /\ ~ShowsVerdict)

\* C8: while the call of the most recent valid submission is unresolved the
\* controller is in Checking.
C8_PendingMeansChecking ==
    (calls # <<>> /\ calls[Latest].pc # "done" /\ outcome.kind = "pending")
        => Lifecycle = "checking"

\* C9: in a terminal state (Resolved or Failed) submit is enabled, and a
\* submit with valid input goes straight to Checking with one new call
\* suspended at fetch and the old verdict and error cleared.
C9_ResubmitFromTerminal ==
    /\ []((Lifecycle \in {"resolved", "failed"} /\ submits < MaxSubmits)
            => ENABLED SubmitJsx)
    /\ [][(SubmitStep /\ ValidInput /\ Lifecycle \in {"resolved", "failed"})
            => /\ Lifecycle' = "checking"
               /\ ~ShowsVerdict' /\ ~ShowsError'
               /\ Len(calls') = Len(calls) + 1
               /\ calls'[Len(calls')].pc = "fetch"]_vars

\* C9 witness: a valid submit taken in a Failed state has put the
\* controller in Checking with its call in flight.
C9_Witness ==
    /\ last.ev = "submit"
    /\ last.was = "failed"
    /\ Lifecycle = "checking"
    /\ calls[last.id].pc = "fetch"

\* C10: no retry.  The number of transport calls issued equals the number
\* of submits with valid input, and a call is issued only by a submit.
C10_NoRetry ==
    /\ [](Len(calls) = valid)
    /\ [][Len(calls') # Len(calls) => SubmitStep]_vars

\* C11: a call whose 2xx body is not JSON ends by showing an error, stores
\* no verdict and clears the busy indicator.
C11_MalformedBodyFails ==
    [][\A i \in Ids :
          (calls[i].pc = "json" /\ calls'[i].pc = "done" /\ last'.ev = "malformed")
          => (ShowsError' /\ result' = result /\ ~Busy')]_vars

\* The parts of the view that are present: busy indicator, verdict, error.
Present ==
    (IF Busy THEN {"busy"} ELSE {})
        \cup (IF ShowsVerdict THEN {"verdict"} ELSE {})
        \cup (IF ShowsError THEN {"error"} ELSE {})

\* C12: at most one of busy indicator, verdict and error is present in any
\* reachable state.
C12_OneLifecycleState == Cardinality(Present) <= 1

\* The confidence of a payload: the score of a Shape A payload when it is
\* a number (every JSON number is finite), else none.
Confidence(p) ==
    IF IsShapeA(p) /\ TypeOf(GetScore(p)) = "number" THEN GetScore(p) ELSE Null

\* C13: for a Shape A or Shape B payload whose verdict is shown, the score
\* text is the payload's score when the payload has a confidence, and no
\* score text is shown when it has none.
C13_ScoreOnlyWhenNumeric ==
    (/\ JustEnded("parsed")
     /\ IsShapeA(outcome.data) \/ IsShapeB(outcome.data)
     /\ ShowsVerdict)
        => ScoreTextJsx(result) =
              (IF Confidence(outcome.data) = Null THEN <<>>
               ELSE ToFixed2(Confidence(outcome.data)[2]))

\* C14: a safe verdict comes to be displayed only by the most recent
\* call ending with a 2xx response whose parsed payload is of Shape A or
\* Shape B and classifies the URL as not phishing.
C14_SafeOnlyFromSafePayload ==
    [][(ShowsVerdict' /\ Verdict(result') = "safe" /\ result' # result)
          => /\ calls # <<>>
             /\ calls[Latest].pc = "json"
             /\ Ok(calls[Latest].status)
             /\ calls'[Latest].pc = "done"
             /\ last'.ev = "parsed"
             /\ IsShapeA(outcome'.data) \/ IsShapeB(outcome'.data)
             /\ ~IsPhishing(outcome'.data)]_vars

\* Once every issued call has settled the busy indicator is off.
SettledIsNotBusy == AllSettled => ~Busy

\* C15: once every issued call has settled (and until a further submit),
\* the busy indicator is off and the state is Resolved or Failed.
C15_SettledIsTerminal ==
    (calls # <<>> /\ AllSettled)
        => (~Busy /\ Lifecycle \in {"resolved", "failed"})

\* C16: an edit of the input field changes neither the busy indicator,
\* the verdict, the error nor any call; the url a call carries never
\* changes while the call is in flight; and each call carries the (trimmed)
\* value the field had at its own submit.
C16_EditLeavesRequestsAlone ==
    [][/\ (url' # url)
            => (loading' = loading /\ result' = result /\ error' = error /\ calls' = calls)
       /\ \A i \in Ids : (calls'[i].pc # "done") => (calls'[i].url = calls[i].url)
       /\ (SubmitStep /\ ValidInput)
            => (calls' # <<>> /\ calls'[Len(calls')].url = Trim(url))]_vars

\* C16 witness: two calls in flight carry different urls, each the value
\* of its own submit, and the field has since been edited to a third value.
C16_Witness ==
    /\ Len(calls) >= 2
    /\ calls[1].pc # "done"
    /\ calls[2].pc # "done"
    /\ calls[1].url # calls[2].url
    /\ Trim(url) \notin {calls[1].url, calls[2].url}
    /\ Busy

====
